---- MODULE Spec2Model ----
(***************************************************************************)
(* The question/answer server of the repository: three revisions of        *)
(* server.js (src/server.js lines 1-335, src/server.js lines 336-684 and   *)
(* src/unnamed/part_000), each an express application whose handlers run   *)
(* a read-modify-write cycle over one JSON file, questions.json.           *)
(*                                                                         *)
(* A handler is an async function: the code between two awaits runs        *)
(* atomically, and other requests run while it awaits the file system.     *)
(* Each action below is one such atomic segment together with the file     *)
(* operation that ends or starts it.                                       *)
(*                                                                         *)
(* Not modelled, because no step of the handlers reads them back:          *)
(* timestamp, date, ip, userAgent, author, the persisted copy of           *)
(* parentAnswerId, response and respondedAt.  JSON.stringify followed by   *)
(* JSON.parse is lossless on the values stored here (numbers, strings,     *)
(* booleans, arrays, plain objects), so the file holds the value itself;   *)
(* contents that do not parse to a collection are the kinds "blank",       *)
(* "garbage" and "noq" of the file.                                        *)
(***************************************************************************)
EXTENDS Integers, Sequences, FiniteSets, TLC

VARIABLES
    version,    \* which revision of server.js runs
    file,       \* questions.json: [kind, questions]
    now,        \* the last value Date.now() returned
    left,       \* requests that may still arrive
    pc,         \* per request slot: position in the handler
    req,        \* per request slot: the request being served
    loaded,     \* per request slot: questionsData as readQuestionsFile returned it
    data,       \* per request slot: questionsData after the handler changed it
    resp,       \* per request slot: the response sent
    missed,     \* history, per request slot: the slots whose current request
                \* had its write accepted after this slot's readQuestionsFile
                \* returned and before this slot's own write
    wrote,      \* history, per request slot: a file operation of the slot's
                \* current request has changed the stored questions
    issued      \* history: the last value of Date.now() that became an id, and
                \* whether some value became the id of two creations

vars ==
    <<version, file, now, left, pc, req, loaded, data, resp, missed, wrote, issued>>

----------------------------------------------------------------------------
(* Bounds *)

\* Requests served in one behaviour that starts without questions.
MaxRequests == 3
\* Requests served in one behaviour that starts from stored questions.
MaxSeedRequests == 2
\* Requests served in one behaviour that starts from a hand-edited or
\* legacy question, and the largest likes counter of such a question.
MaxLegacyRequests == 2
MaxLegacyLikes == 1
\* Requests served in one behaviour that starts from a questions.json that
\* holds no collection.
MaxMalformedRequests == 2

\* Concurrent request slots, user ids, revisions.
Procs == {"p1", "p2"}
Users == {"u1", "u2"}
Versions == {"v1", "v2", "fixed"}

\* question.trim().length < 5
MinQuestionLen == 5

----------------------------------------------------------------------------
(* Strings are sequences of one-character strings, so that trim() and      *)
(* length are computed.                                                    *)

RECURSIVE TrimStart(_)
TrimStart(s) ==
    IF s = <<>> THEN s
    ELSE IF Head(s) = " " THEN TrimStart(Tail(s)) ELSE s

RECURSIVE TrimEnd(_)
TrimEnd(s) ==
    IF s = <<>> THEN s
    ELSE IF s[Len(s)] = " " THEN TrimEnd(SubSeq(s, 1, Len(s) - 1)) ELSE s

\* String.prototype.trim
Trim(s) == TrimEnd(TrimStart(s))

\* Question texts a client may send; <<>> is also the missing field
\* (!question holds for undefined, null and "").
QuestionTexts ==
    { <<>>,
      <<" ", "a", "b", "c", "d">>,
      <<" ", "a", "b", "c", "d", "e", " ">> }

\* Reply texts a client may send.
AnswerTexts == { <<>>, <<" ">>, <<" ", "h", "i">> }

\* (name, email) pairs a client may send; "" is also the missing field.
Senders == { [name |-> "", email |-> ""], [name |-> "Sara", email |-> "s@x"] }

\* The length check without trim().
InvalidQuestionUntrimmed(text) == text = <<>> \/ Len(text) < MinQuestionLen

\* !question || question.trim().length < 5
InvalidQuestion(text) == text = <<>> \/ Len(Trim(text)) < MinQuestionLen

\* !answer || answer.trim().length === 0
InvalidAnswer(text) == text = <<>> \/ Len(Trim(text)) = 0

\* The name without its default.
NameAsGiven(name) == name

\* name || 'Anonymous'
NameOrAnonymous(name) == IF name = "" THEN "Anonymous" ELSE name

----------------------------------------------------------------------------
(* The document *)

\* parentAnswerId that is absent, null or 0: falsy.
NoParent == 0
\* The like request carries no userId.
NoUser == "none"

EmptyFile == [kind |-> "ok", questions |-> <<>>]
AbsentFile == [kind |-> "absent", questions |-> <<>>]

\* { questions: [] }
EmptyData == [hasQ |-> TRUE, questions |-> <<>>]

\* newQuestion
NewQuestion(id, name, email, text) ==
    [ id |-> id,
      name |-> NameOrAnonymous(name),
      email |-> email,
      question |-> Trim(text),
      status |-> "pending",
      likes |-> 0,
      likedBy |-> <<>>,
      answers |-> <<>> ]

\* newReply
NewReply(id, text, isOwner) ==
    [ id |-> id, content |-> Trim(text), isOwner |-> isOwner, replies |-> <<>> ]

\* questions.findIndex(q => q.id == id); 0 stands for -1.
RECURSIVE FindIndexFrom(_, _, _)
FindIndexFrom(questions, id, i) ==
    IF i > Len(questions) THEN 0
    ELSE IF questions[i].id = id THEN i
    ELSE FindIndexFrom(questions, id, i + 1)

\* questions.findLastIndex(q => q.id == id)
FindLastIndex(questions, id) ==
    LET found == {i \in 1 .. Len(questions) : questions[i].id = id} IN
    IF found = {} THEN 0
    ELSE CHOOSE i \in found : \A j \in found : j <= i

FindIndex(questions, id) == FindIndexFrom(questions, id, 1)

\* likedBy.indexOf(userId); 0 stands for -1.
RECURSIVE IndexOfFrom(_, _, _)
IndexOfFrom(s, x, i) ==
    IF i > Len(s) THEN 0
    ELSE IF s[i] = x THEN i
    ELSE IndexOfFrom(s, x, i + 1)

IndexOf(s, x) == IndexOfFrom(s, x, 1)

\* s.splice(i, 1)
Splice(s, i) == SubSeq(s, 1, i - 1) \o SubSeq(s, i + 1, Len(s))

Max(a, b) == IF a >= b THEN a ELSE b

----------------------------------------------------------------------------
(* The like toggle: the body of app.post('/api/questions/:id/like') between *)
(* findIndex and writeQuestionsFile.                                       *)

\* The unlike branch forgets the counter.
ToggleLikeKeepsCount(question, userId) ==
    LET userIndex == IndexOf(question.likedBy, userId) IN
    IF userIndex = 0
    THEN [ question |-> [question EXCEPT !.likedBy = Append(@, userId),
                                         !.likes = @ + 1],
           isLiked |-> TRUE ]
    ELSE [ question |-> [question EXCEPT !.likedBy = Splice(@, userIndex)],
           isLiked |-> FALSE ]

\* The unlike branch forgets the splice.
ToggleLikeKeepsUser(question, userId) ==
    LET userIndex == IndexOf(question.likedBy, userId) IN
    IF userIndex = 0
    THEN [ question |-> [question EXCEPT !.likedBy = Append(@, userId),
                                         !.likes = @ + 1],
           isLiked |-> TRUE ]
    ELSE [ question |-> [question EXCEPT !.likes = Max(0, @ - 1)],
           isLiked |-> FALSE ]

\* The unlike branch without Math.max.
ToggleLikeNoFloor(question, userId) ==
    LET userIndex == IndexOf(question.likedBy, userId) IN
    IF userIndex = 0
    THEN [ question |-> [question EXCEPT !.likedBy = Append(@, userId),
                                         !.likes = @ + 1],
           isLiked |-> TRUE ]
    ELSE [ question |-> [question EXCEPT !.likedBy = Splice(@, userIndex),
                                         !.likes = @ - 1],
           isLiked |-> FALSE ]

\* The push without the indexOf test.
ToggleLikeAlwaysPushes(question, userId) ==
    [ question |-> [question EXCEPT !.likedBy = Append(@, userId),
                                    !.likes = @ + 1],
      isLiked |-> TRUE ]

ToggleLike(question, userId) ==
    LET userIndex == IndexOf(question.likedBy, userId) IN
    IF userIndex = 0
    THEN [ question |-> [question EXCEPT !.likedBy = Append(@, userId),
                                         !.likes = @ + 1],
           isLiked |-> TRUE ]
    ELSE [ question |-> [question EXCEPT !.likedBy = Splice(@, userIndex),
                                         !.likes = Max(0, @ - 1)],
           isLiked |-> FALSE ]

----------------------------------------------------------------------------
(* The reply tree *)

\* The search without its descent into replies[i].replies.
RECURSIVE AddReplyToTopLevelParent(_, _, _)
AddReplyToTopLevelParent(replies, parentId, reply) ==
    IF replies = <<>> THEN [added |-> FALSE, replies |-> replies]
    ELSE
        LET h == Head(replies) IN
        IF h.id = parentId
        THEN [ added |-> TRUE,
               replies |-> <<[h EXCEPT !.replies = Append(@, reply)]>> \o Tail(replies) ]
        ELSE
            LET rest == AddReplyToTopLevelParent(Tail(replies), parentId, reply) IN
            [ added |-> rest.added, replies |-> <<h>> \o rest.replies ]

\* The search without its return after the push: it goes on and pushes the
\* reply to every reply whose id == parentId.
RECURSIVE AddReplyToEveryParent(_, _, _)
AddReplyToEveryParent(replies, parentId, reply) ==
    IF replies = <<>> THEN [added |-> FALSE, replies |-> replies]
    ELSE
        LET h == Head(replies)
            sub == AddReplyToEveryParent(h.replies, parentId, reply)
            rest == AddReplyToEveryParent(Tail(replies), parentId, reply)
            h1 == [h EXCEPT !.replies =
                      IF h.id = parentId THEN Append(sub.replies, reply)
                      ELSE sub.replies]
        IN  [ added |-> (h.id = parentId) \/ sub.added \/ rest.added,
              replies |-> <<h1>> \o rest.replies ]

\* addReplyToParent / findAndAddToParent: pre-order search, the first reply
\* whose id == parentId gets the new reply pushed to its replies.
RECURSIVE AddReplyToParent(_, _, _)
AddReplyToParent(replies, parentId, reply) ==
    IF replies = <<>> THEN [added |-> FALSE, replies |-> replies]
    ELSE
        LET h == Head(replies) IN
        IF h.id = parentId
        THEN [ added |-> TRUE,
               replies |-> <<[h EXCEPT !.replies = Append(@, reply)]>> \o Tail(replies) ]
        ELSE
            LET sub == AddReplyToParent(h.replies, parentId, reply) IN
            IF sub.added
            THEN [ added |-> TRUE,
                   replies |-> <<[h EXCEPT !.replies = sub.replies]>> \o Tail(replies) ]
            ELSE
                LET rest == AddReplyToParent(Tail(replies), parentId, reply) IN
                [ added |-> rest.added, replies |-> <<h>> \o rest.replies ]

\* The placement of newReply in revision v1 (src/server.js 159-208): status is
\* set only in the branch without parentAnswerId.
PlaceReplyV1(question, reply, isOwner, parentAnswerId) ==
    IF parentAnswerId # NoParent
    THEN
        LET r == AddReplyToParent(question.answers, parentAnswerId, reply) IN
        IF r.added
        THEN [question EXCEPT !.answers = r.replies]
        ELSE [question EXCEPT !.answers = Append(@, reply)]
    ELSE
        [question EXCEPT !.answers = Append(@, reply),
                         !.status = IF isOwner THEN "answered" ELSE @]

\* The placement of newReply in revisions v2 and fixed: whatever was not added
\* to a parent is pushed to answers, and an owner's reply there sets status.
PlaceReplyV2(question, reply, isOwner, parentAnswerId) ==
    LET r == IF parentAnswerId # NoParent
             THEN AddReplyToParent(question.answers, parentAnswerId, reply)
             ELSE [added |-> FALSE, replies |-> question.answers] IN
    IF r.added
    THEN [question EXCEPT !.answers = r.replies]
    ELSE [question EXCEPT !.answers = Append(@, reply),
                          !.status = IF isOwner THEN "answered" ELSE @]

\* The push to answers is not skipped after the reply was added to its parent.
PlaceReplyAlsoAtTopLevel(v, question, reply, isOwner, parentAnswerId) ==
    LET r == IF parentAnswerId # NoParent
             THEN AddReplyToParent(question.answers, parentAnswerId, reply)
             ELSE [added |-> FALSE, replies |-> question.answers] IN
    [question EXCEPT !.answers = Append(r.replies, reply)]

\* The status is set for every owner's reply, wherever it is placed.
PlaceReplyAnswersAlways(v, question, reply, isOwner, parentAnswerId) ==
    LET q == IF v = "v1"
             THEN PlaceReplyV1(question, reply, isOwner, parentAnswerId)
             ELSE PlaceReplyV2(question, reply, isOwner, parentAnswerId) IN
    [q EXCEPT !.status = IF isOwner THEN "answered" ELSE @]

PlaceReply(v, question, reply, isOwner, parentAnswerId) ==
    IF v = "v1"
    THEN PlaceReplyV1(question, reply, isOwner, parentAnswerId)
    ELSE PlaceReplyV2(question, reply, isOwner, parentAnswerId)

----------------------------------------------------------------------------
(* readQuestionsFile after the file is known to exist: readFile, the blank  *)
(* check and JSON.parse.  ok = FALSE: readFile throws.                      *)

\* The catch returns {} instead of { questions: [] }.
ParseFileCatchReturnsObject(v, f, ok) ==
    IF ~ok \/ f.kind = "garbage"
    THEN [hasQ |-> FALSE, questions |-> <<>>]
    ELSE IF f.kind \in {"absent", "blank"}
    THEN EmptyData
    ELSE IF f.kind = "noq"
    THEN [hasQ |-> (v = "v2"), questions |-> <<>>]
    ELSE [hasQ |-> TRUE, questions |-> f.questions]

ParseFile(v, f, ok) ==
    IF ~ok \/ f.kind \in {"absent", "blank", "garbage"}
    THEN EmptyData
    ELSE IF f.kind = "noq"
    THEN [hasQ |-> (v = "v2"), questions |-> <<>>]
    ELSE [hasQ |-> TRUE, questions |-> f.questions]

\* JSON.stringify(questionsData) as writeQuestionsFile stores it.
Stored(v, d) ==
    IF d.hasQ \/ v = "v2"
    THEN [kind |-> "ok", questions |-> d.questions]
    ELSE [kind |-> "noq", questions |-> <<>>]

\* res.json(questionsData.questions || [])
ListOf(d) == IF d.hasQ THEN d.questions ELSE <<>>

----------------------------------------------------------------------------
(* Requests and responses *)

Req(op, qid, text, sender, isOwner, parent, user) ==
    [ op |-> op, qid |-> qid, text |-> text, sender |-> sender,
      isOwner |-> isOwner, parent |-> parent, user |-> user ]

NoSender == [name |-> "", email |-> ""]
NoReq == Req("none", 0, <<>>, NoSender, FALSE, NoParent, NoUser)

\* The body being prepared for res.json and, once sent, its status
\* (0: nothing sent yet).
NoResp ==
    [ status |-> 0, questionId |-> 0, likes |-> 0, isLiked |-> FALSE,
      reply |-> <<>>, list |-> <<>> ]

Err(code) == [NoResp EXCEPT !.status = code]

\* Date.now(): the clock has not moved since the last call, or it has.
Ticks(n) == IF n = 0 THEN {1} ELSE {n, n + 1}

\* The ids of the replies of a forest, at every depth.
RECURSIVE ReplyIds(_)
ReplyIds(replies) ==
    IF replies = <<>> THEN {}
    ELSE {Head(replies).id} \cup ReplyIds(Head(replies).replies)
                            \cup ReplyIds(Tail(replies))

QuestionIdsOf(questions) == {questions[i].id : i \in 1 .. Len(questions)}

RECURSIVE AllReplyIds(_)
AllReplyIds(questions) ==
    IF questions = <<>> THEN {}
    ELSE ReplyIds(Head(questions).answers) \cup AllReplyIds(Tail(questions))

\* Ids a request may name: those in the file when it arrives, and one that
\* Date.now() has not issued yet.
QuestionIds == QuestionIdsOf(file.questions)
UnknownId == now + 1
ParentIds == {NoParent, UnknownId} \cup AllReplyIds(file.questions)

ValidQuestionTexts == {t \in QuestionTexts : ~InvalidQuestion(t)}
ValidAnswerTexts == {t \in AnswerTexts : ~InvalidAnswer(t)}

\* The requests that may arrive.  A request that is rejected before any of
\* its other fields is read (invalid text, unknown question) is sent with
\* one value of those fields.
Requests ==
    { Req("submit", 0, t, s, FALSE, NoParent, NoUser) :
        t \in ValidQuestionTexts, s \in Senders }
    \cup { Req("submit", 0, t, NoSender, FALSE, NoParent, NoUser) :
        t \in QuestionTexts \ ValidQuestionTexts }
    \cup { Req("reply", q, t, NoSender, o, a, NoUser) :
        q \in QuestionIds, t \in ValidAnswerTexts, o \in BOOLEAN, a \in ParentIds }
    \cup { Req("reply", UnknownId, t, NoSender, FALSE, NoParent, NoUser) :
        t \in AnswerTexts }
    \cup { Req("like", q, <<>>, NoSender, FALSE, NoParent, u) :
        q \in QuestionIds, u \in Users \cup {NoUser} }
    \cup { Req("like", UnknownId, <<>>, NoSender, FALSE, NoParent, "u1"),
           Req("list", 0, <<>>, NoSender, FALSE, NoParent, NoUser),
           Req("init", 0, <<>>, NoSender, FALSE, NoParent, NoUser) }

\* const { userId = 'anonymous' } = req.body          (v1)
\* const { userId = 'user_' + Date.now() } = req.body (v2, fixed)
DefaultUserId(v, t) == IF v = "v1" THEN "anonymous" ELSE "user_" \o ToString(t)

\* Where a handler first touches the file: v1 reads it at once (only its
\* initializeQuestionsFile calls fs.access), v2 and fixed call fs.access.
FirstPc(v, op) ==
    IF v = "v1" THEN (IF op = "init" THEN "access" ELSE "read") ELSE "access"

----------------------------------------------------------------------------
(* The handlers' synchronous part, from the return of readQuestionsFile to  *)
(* the call of writeQuestionsFile or to the response.                      *)

\* id: Date.now() in newQuestion and newReply
Issue(t) == issued' = [last |-> t, twice |-> issued.twice \/ t = issued.last]

\* The handler without questionsData.questions.push(newQuestion).
SubmitBodyWithoutPush(p, r, d) ==
    IF ~d.hasQ /\ version = "v1"
    THEN /\ data' = [data EXCEPT ![p] = d]
         /\ resp' = [resp EXCEPT ![p] = Err(500)]
         /\ pc' = [pc EXCEPT ![p] = "done"]
         /\ now' = now
         /\ issued' = issued
    ELSE \E t \in Ticks(now) :
         LET q == NewQuestion(t, r.sender.name, r.sender.email, r.text) IN
         /\ now' = t
         /\ Issue(t)
         /\ data' = [data EXCEPT ![p] = [hasQ |-> TRUE, questions |-> ListOf(d)]]
         /\ resp' = [resp EXCEPT ![p] = [NoResp EXCEPT !.questionId = q.id]]
         /\ pc' = [pc EXCEPT ![p] = "write"]

\* app.post('/api/submit-question')
SubmitBody(p, r, d) ==
    IF ~d.hasQ /\ version = "v1"
    THEN \* questionsData.questions.push throws a TypeError: the catch answers 500
         /\ data' = [data EXCEPT ![p] = d]
         /\ resp' = [resp EXCEPT ![p] = Err(500)]
         /\ pc' = [pc EXCEPT ![p] = "done"]
         /\ now' = now
         /\ issued' = issued
    ELSE \E t \in Ticks(now) :
         LET q == NewQuestion(t, r.sender.name, r.sender.email, r.text) IN
         /\ now' = t
         /\ Issue(t)
         /\ data' = [data EXCEPT ![p] =
                        [hasQ |-> TRUE, questions |-> Append(ListOf(d), q)]]
         /\ resp' = [resp EXCEPT ![p] = [NoResp EXCEPT !.questionId = q.id]]
         /\ pc' = [pc EXCEPT ![p] = "write"]

\* app.post('/api/questions/:id/answer')
ReplyBody(p, r, d) ==
    LET idx == FindIndex(ListOf(d), r.qid) IN
    IF ~d.hasQ \/ idx = 0
    THEN \* findIndex of undefined throws (500); no such question (404)
         /\ data' = [data EXCEPT ![p] = d]
         /\ resp' = [resp EXCEPT ![p] = Err(IF ~d.hasQ THEN 500 ELSE 404)]
         /\ pc' = [pc EXCEPT ![p] = "done"]
         /\ now' = now
         /\ issued' = issued
    ELSE \E t \in Ticks(now) :
         LET n == NewReply(t, r.text, r.isOwner)
             q == PlaceReply(version, d.questions[idx], n,
                             r.isOwner, r.parent) IN
         /\ now' = t
         /\ Issue(t)
         /\ data' = [data EXCEPT ![p] =
                        [d EXCEPT !.questions = [@ EXCEPT ![idx] = q]]]
         /\ resp' = [resp EXCEPT ![p] = [NoResp EXCEPT !.reply = <<n>>]]
         /\ pc' = [pc EXCEPT ![p] = "write"]

\* app.post('/api/questions/:id/like')
LikeBody(p, r, d) ==
    LET idx == FindIndex(ListOf(d), r.qid) IN
    /\ now' = now
    /\ issued' = issued
    /\ IF ~d.hasQ \/ idx = 0
       THEN /\ data' = [data EXCEPT ![p] = d]
            /\ resp' = [resp EXCEPT ![p] = Err(IF ~d.hasQ THEN 500 ELSE 404)]
            /\ pc' = [pc EXCEPT ![p] = "done"]
       ELSE LET l == ToggleLike(d.questions[idx], r.user) IN
            /\ data' = [data EXCEPT ![p] =
                           [d EXCEPT !.questions = [@ EXCEPT ![idx] = l.question]]]
            /\ resp' = [resp EXCEPT ![p] =
                           [NoResp EXCEPT !.likes = l.question.likes,
                                          !.isLiked = l.isLiked]]
            /\ pc' = [pc EXCEPT ![p] = "write"]

\* app.get('/api/questions'), and initializeData, which only logs the length
ListBody(p, r, d) ==
    /\ now' = now
    /\ issued' = issued
    /\ data' = [data EXCEPT ![p] = d]
    /\ resp' = [resp EXCEPT ![p] =
                   IF r.op = "list"
                   THEN [NoResp EXCEPT !.status = 200, !.list = ListOf(d)]
                   ELSE NoResp]
    /\ pc' = [pc EXCEPT ![p] = "done"]

\* The handler of request r goes on with d, what readQuestionsFile returned.
Handle(p, r, d) ==
    /\ loaded' = [loaded EXCEPT ![p] = d]
    /\ IF r.op = "submit" THEN SubmitBody(p, r, d)
       ELSE IF r.op = "reply" THEN ReplyBody(p, r, d)
       ELSE IF r.op = "like" THEN LikeBody(p, r, d)
       ELSE ListBody(p, r, d)

----------------------------------------------------------------------------
(* Actions *)

\* A request arrives and its handler runs up to the return of its first file
\* operation: fs.readFile in v1, fs.access in v2 and fixed (ok = FALSE: the
\* operation throws).  Nothing before that operation reads or writes the
\* file, so the arrival and the operation are one step.
Arrive(p, r, ok) ==
    /\ pc[p] = "idle"
    /\ left > 0
    /\ left' = left - 1
    /\ IF (r.op = "submit" /\ InvalidQuestion(r.text))
          \/ (r.op = "reply" /\ InvalidAnswer(r.text))
       THEN /\ req' = [req EXCEPT ![p] = r]
            /\ resp' = [resp EXCEPT ![p] = Err(400)]
            /\ pc' = [pc EXCEPT ![p] = "done"]
            /\ UNCHANGED <<now, loaded, data, issued>>
       ELSE IF FirstPc(version, r.op) = "read"
       THEN LET r1 == IF r.op = "like" /\ r.user = NoUser
                      THEN [r EXCEPT !.user = DefaultUserId(version, now)]
                      ELSE r IN
            /\ req' = [req EXCEPT ![p] = r1]
            /\ Handle(p, r1, ParseFile(version, file, ok))
       ELSE \E t \in (IF r.op = "like" /\ r.user = NoUser /\ version # "v1"
                      THEN Ticks(now) ELSE {now}) :
            /\ now' = t
            /\ req' = [req EXCEPT ![p] =
                          IF r.op = "like" /\ r.user = NoUser
                          THEN [r EXCEPT !.user = DefaultUserId(version, t)]
                          ELSE r]
            /\ pc' = [pc EXCEPT ![p] =
                         IF ok /\ file.kind # "absent"
                         THEN (IF version = "v1" THEN "done" ELSE "read")
                         ELSE "create"]
            /\ UNCHANGED <<resp, loaded, data, issued>>
    /\ UNCHANGED <<version, file, missed, wrote>>

\* The catch of fs.access without its write.
CreateWithoutWrite(p, ok) ==
    /\ pc[p] = "create"
    /\ file' = file
    /\ wrote' = wrote
    /\ IF version = "v1"
       THEN /\ pc' = [pc EXCEPT ![p] = "done"]
            /\ UNCHANGED <<now, loaded, data, resp, issued>>
       ELSE Handle(p, req[p], EmptyData)
    /\ UNCHANGED <<version, left, req, missed>>

\* The catch of fs.access: { questions: [] } is written (a failure of the
\* write is swallowed) and returned.
Create(p, ok) ==
    /\ pc[p] = "create"
    /\ file' = IF ok THEN EmptyFile ELSE file
    /\ wrote' = [wrote EXCEPT ![p] = @ \/ file'.questions # file.questions]
    /\ IF version = "v1"
       THEN /\ pc' = [pc EXCEPT ![p] = "done"]
            /\ UNCHANGED <<now, loaded, data, resp, issued>>
       ELSE Handle(p, req[p], EmptyData)
    /\ UNCHANGED <<version, left, req, missed>>

\* await fs.readFile after fs.access succeeded (v2, fixed), the parse, and
\* the handler up to its next await.
ReadFile(p, ok) ==
    /\ pc[p] = "read"
    /\ Handle(p, req[p], ParseFile(version, file, ok))
    /\ UNCHANGED <<version, file, left, req, missed, wrote>>

\* The response is sent without the write having reached the file.
WriteWithoutStore(p, ok) ==
    /\ pc[p] = "write"
    /\ pc' = [pc EXCEPT ![p] = "done"]
    /\ IF ok
       THEN /\ resp' = [resp EXCEPT ![p] = [@ EXCEPT !.status = 200]]
            /\ missed' = [o \in Procs |->
                             IF o # p /\ pc[o] = "write"
                             THEN missed[o] \cup {p} ELSE missed[o]]
       ELSE /\ resp' = [resp EXCEPT ![p] = Err(500)]
            /\ UNCHANGED missed
    /\ UNCHANGED <<version, file, now, left, req, loaded, data, wrote, issued>>

\* await writeQuestionsFile(questionsData) and the response.
Write(p, ok) ==
    /\ pc[p] = "write"
    /\ pc' = [pc EXCEPT ![p] = "done"]
    /\ IF ok
       THEN /\ file' = Stored(version, data[p])
            /\ resp' = [resp EXCEPT ![p] = [@ EXCEPT !.status = 200]]
            /\ missed' = [o \in Procs |->
                             IF o # p /\ pc[o] = "write"
                             THEN missed[o] \cup {p} ELSE missed[o]]
       ELSE /\ resp' = [resp EXCEPT ![p] = Err(500)]
            /\ UNCHANGED <<file, missed>>
    /\ wrote' = [wrote EXCEPT ![p] = @ \/ file'.questions # file.questions]
    /\ UNCHANGED <<version, now, left, req, loaded, data, issued>>

\* The response has been delivered; the slot serves the next request.
Finish(p) ==
    /\ pc[p] = "done"
    /\ pc' = [pc EXCEPT ![p] = "idle"]
    /\ req' = [req EXCEPT ![p] = NoReq]
    /\ loaded' = [loaded EXCEPT ![p] = EmptyData]
    /\ data' = [data EXCEPT ![p] = EmptyData]
    /\ resp' = [resp EXCEPT ![p] = NoResp]
    /\ missed' = [o \in Procs |-> IF o = p THEN {} ELSE missed[o] \ {p}]
    /\ wrote' = [wrote EXCEPT ![p] = FALSE]
    /\ UNCHANGED <<version, file, now, left, issued>>

IdleSlots ==
    /\ pc = [p \in Procs |-> "idle"]
    /\ req = [p \in Procs |-> NoReq]
    /\ loaded = [p \in Procs |-> EmptyData]
    /\ data = [p \in Procs |-> EmptyData]
    /\ resp = [p \in Procs |-> NoResp]
    /\ missed = [p \in Procs |-> {}]
    /\ wrote = [p \in Procs |-> FALSE]

\* A collection the handlers leave behind: one question (id 1) with a reply
\* (id 2), a reply to that reply (id 3) and a like by u1.
SeedQuestion(v) ==
    LET q0 == NewQuestion(1, "Sara", "s@x", <<" ", "a", "b", "c", "d", "e", " ">>)
        q1 == PlaceReply(v, q0, NewReply(2, <<" ", "h", "i">>, FALSE), FALSE, NoParent)
        q2 == PlaceReply(v, q1, NewReply(3, <<" ", "h", "i">>, FALSE), FALSE, 2)
    IN  ToggleLike(q2, "u1").question

SeedFile(v) == [kind |-> "ok", questions |-> <<SeedQuestion(v)>>]

\* The server starts on a missing questions.json, on an empty collection, or
\* on a collection that earlier requests left behind.
Init ==
    /\ version \in Versions
    /\ \/ file \in {AbsentFile, EmptyFile} /\ now = 0 /\ left = MaxRequests
       \/ file = SeedFile(version) /\ now = 3 /\ left = MaxSeedRequests
    /\ issued = [last |-> now, twice |-> FALSE]
    /\ IdleSlots

Next ==
    \E p \in Procs :
        \/ \E r \in Requests, ok \in BOOLEAN : Arrive(p, r, ok)
        \/ \E ok \in BOOLEAN : Create(p, ok)
        \/ \E ok \in BOOLEAN : ReadFile(p, ok)
        \/ \E ok \in BOOLEAN : Write(p, ok)
        \/ Finish(p)

Spec == Init /\ [][Next]_vars

----------------------------------------------------------------------------
(* The same server on a file system whose operations succeed: fs.access     *)
(* fails only when questions.json does not exist, fs.readFile and           *)
(* fs.writeFile do not fail.                                                *)

ReliableNext ==
    \E p \in Procs :
        \/ \E r \in Requests : Arrive(p, r, TRUE)
        \/ Create(p, TRUE)
        \/ ReadFile(p, TRUE)
        \/ Write(p, TRUE)
        \/ Finish(p)

ReliableSpec == Init /\ [][ReliableNext]_vars

----------------------------------------------------------------------------
(* A questions.json that was not written by these handlers (edited by hand, *)
(* or by an older tool): the like handler allows for it (!question.likedBy, *)
(* question.likes || 0, Math.max(0, ...)).  Its one question has a likes    *)
(* counter that need not be the length of likedBy.                          *)

LegacyQuestion(likes, likedBy) ==
    [ NewQuestion(1, "", "", <<" ", "a", "b", "c", "d", "e", " ">>)
        EXCEPT !.likes = likes, !.likedBy = likedBy ]

LegacyInit ==
    /\ version \in Versions
    /\ \E n \in 0 .. MaxLegacyLikes, l \in {<<>>, <<"u1">>} :
           file = [kind |-> "ok", questions |-> <<LegacyQuestion(n, l)>>]
    /\ now = 1
    /\ issued = [last |-> 1, twice |-> FALSE]
    /\ left = MaxLegacyRequests
    /\ IdleSlots

LegacySpec == LegacyInit /\ [][Next]_vars

----------------------------------------------------------------------------
(* A questions.json whose content is not a collection: only white space      *)
(* ("blank": !data.trim()), text that JSON.parse rejects ("garbage"), or an  *)
(* object without the questions field ("noq").                              *)

MalformedFiles ==
    { [kind |-> k, questions |-> <<>>] : k \in {"blank", "garbage", "noq"} }

MalformedInit ==
    /\ version \in Versions
    /\ file \in MalformedFiles
    /\ now = 0
    /\ issued = [last |-> 0, twice |-> FALSE]
    /\ left = MaxMalformedRequests
    /\ IdleSlots

MalformedSpec == MalformedInit /\ [][Next]_vars

----------------------------------------------------------------------------
(* Vocabulary of the properties *)

SetOf(s) == {s[i] : i \in 1 .. Len(s)}

\* Every reply of a forest, at every depth.
RECURSIVE Nodes(_)
Nodes(replies) ==
    IF replies = <<>> THEN {}
    ELSE {Head(replies)} \cup Nodes(Head(replies).replies) \cup Nodes(Tail(replies))

\* Slot p has answered its request of kind op with success.
Succeeded(p, op) == pc[p] = "done" /\ req[p].op = op /\ resp[p].status = 200

\* Slot p's handler of kind op has changed questionsData: it is about to write
\* it, or has written it.
Changed(p, op) == req[p].op = op /\ (pc[p] = "write" \/ Succeeded(p, op))

\* The question slot p's request names, as loaded and as changed.
Before(p) == loaded[p].questions[FindIndex(loaded[p].questions, req[p].qid)]
After(p) == data[p].questions[FindIndex(data[p].questions, req[p].qid)]

\* The question slot p's submission made.
Submitted(p) == data[p].questions[Len(data[p].questions)]

\* The read-modify-write cycles of slots p and o overlap: each loaded the
\* collection before the other's write.
Overlap(p, o) == o \in missed[p] \/ p \in missed[o]

\* The characters of a text that are not spaces: for the texts sent here,
\* whose spaces are all leading or trailing, the text after trimming.
Letters(text) == SelectSeq(text, LAMBDA c : c # " ")

\* A write that was accepted stored the slot's questionsData.
WriteStoresData ==
    \A p \in Procs :
        (pc[p] = "write" /\ pc'[p] = "done" /\ resp'[p].status = 200)
            => file' = [kind |-> "ok", questions |-> data[p].questions]

----------------------------------------------------------------------------
(* Properties *)

\* C1: when two submissions whose read-modify-write cycles overlap have both
\* answered success, the stored collection holds both new questions.
C1_OverlappingSubmissionsBothStored ==
    \A p, o \in Procs :
        (p # o /\ Succeeded(p, "submit") /\ Succeeded(o, "submit") /\ Overlap(p, o))
            => \E i, j \in 1 .. Len(file.questions) :
                   /\ i # j
                   /\ file.questions[i] = Submitted(p)
                   /\ file.questions[j] = Submitted(o)

\* C2: in every reachable state, every stored question's likes is the number
\* of user ids in its likedBy.
C2_LikesIsLikedByLength ==
    \A i \in 1 .. Len(file.questions) :
        file.questions[i].likes = Len(file.questions[i].likedBy)

\* An unlike has been stored and is the file's content.
C2_Witness ==
    \E p \in Procs :
        /\ Succeeded(p, "like")
        /\ ~resp[p].isLiked
        /\ file.questions = data[p].questions

\* C3: a like of question q by user u that succeeds on the collection the
\* previous successful like of q by u stored leaves q's likes and the
\* membership of q's likedBy as they were before that previous like.
C3_TwoTogglesRestore ==
    \A p, o \in Procs :
        ( /\ p # o
          /\ Succeeded(p, "like") /\ Succeeded(o, "like")
          /\ req[o].qid = req[p].qid /\ req[o].user = req[p].user
          /\ loaded[o] = data[p] )
            => /\ After(o).likes = Before(p).likes
               /\ SetOf(After(o).likedBy) = SetOf(Before(p).likedBy)

\* Two successive likes by a user who had liked the question: an unlike, then
\* a like.
C3_Witness ==
    \E p, o \in Procs :
        /\ p # o
        /\ Succeeded(p, "like") /\ Succeeded(o, "like")
        /\ req[o].qid = req[p].qid /\ req[o].user = req[p].user
        /\ loaded[o] = data[p]
        /\ req[p].user \in SetOf(Before(p).likedBy)
        /\ file.questions = data[o].questions

\* C4: after a successful like, the question's likes is the size of its
\* likedBy, whatever the stored counter was before.
C4_ToggleResynchronises ==
    \A p \in Procs :
        Succeeded(p, "like") => After(p).likes = Len(After(p).likedBy)

\* C5: a like of an existing question removes the user from likedBy if
\* present, with likes one less but not below 0 and isLiked = false, and
\* otherwise appends the user, with likes one more and isLiked = true; the
\* likes returned is the likes of the question that is stored.
C5_ToggleLikeEffect ==
    /\ [](\A p \in Procs :
            Changed(p, "like") =>
                LET b == Before(p)
                    a == After(p)
                    u == req[p].user IN
                /\ IF u \in SetOf(b.likedBy)
                   THEN /\ SetOf(a.likedBy) = SetOf(b.likedBy) \ {u}
                        /\ Len(a.likedBy) = Len(b.likedBy) - 1
                        /\ a.likes = (IF b.likes > 0 THEN b.likes - 1 ELSE 0)
                        /\ a.likes >= 0
                        /\ resp[p].isLiked = FALSE
                   ELSE /\ a.likedBy = Append(b.likedBy, u)
                        /\ a.likes = b.likes + 1
                        /\ resp[p].isLiked = TRUE
                /\ resp[p].likes = a.likes)
    /\ [][WriteStoresData]_vars

\* An unlike of a question whose counter was already 0 has succeeded.
C5_Witness ==
    \E p \in Procs :
        /\ Succeeded(p, "like")
        /\ ~resp[p].isLiked
        /\ Before(p).likes = 0
        /\ resp[p].likes = 0

\* C6: a submission whose text is missing or has fewer than 5 characters
\* after trimming is answered 400 before the file is touched: the handler
\* never reaches the fetch, the creation of the file or the store, and the
\* step that serves it leaves the file as it is.
C6_ShortQuestionRejected ==
    /\ [](\A p \in Procs :
            (req[p].op = "submit" /\ Len(Letters(req[p].text)) < 5)
                => /\ pc[p] = "done"
                   /\ resp[p].status = 400
                   /\ loaded[p] = EmptyData
                   /\ data[p] = EmptyData)
    /\ [][\A p \in Procs :
            (pc[p] = "idle" /\ req'[p].op = "submit"
                            /\ Len(Letters(req'[p].text)) < 5)
                => file' = file]_vars

\* A text of 5 characters, 4 after trimming, has been rejected while no
\* questions.json exists.
C6_Witness ==
    \E p \in Procs :
        /\ req[p].op = "submit"
        /\ req[p].text = <<" ", "a", "b", "c", "d">>
        /\ resp[p].status = 400
        /\ file.kind = "absent"

\* C7: after a valid submission has answered success, a listing that fetches
\* the collection the submission stored returns a question with the returned
\* questionId, the name (or "Anonymous"), the email and the trimmed text of
\* the submission, status pending, likes 0, no likedBy and no answers.
C7_SubmittedQuestionListed ==
    \A p, o \in Procs :
        ( /\ p # o
          /\ Succeeded(p, "submit") /\ Succeeded(o, "list")
          /\ loaded[o].questions = data[p].questions )
            => \E i \in 1 .. Len(resp[o].list) :
                   LET q == resp[o].list[i] IN
                   /\ q.id = resp[p].questionId
                   /\ q.name = (IF req[p].sender.name = "" THEN "Anonymous"
                                ELSE req[p].sender.name)
                   /\ q.email = req[p].sender.email
                   /\ q.question = Letters(req[p].text)
                   /\ Len(q.question) >= 5
                   /\ q.status = "pending"
                   /\ q.likes = 0
                   /\ q.likedBy = <<>>
                   /\ q.answers = <<>>

\* A nameless submission has been stored and then listed.
C7_Witness ==
    \E p, o \in Procs :
        /\ p # o
        /\ Succeeded(p, "submit") /\ Succeeded(o, "list")
        /\ loaded[o].questions = data[p].questions
        /\ req[p].sender.name = ""
        /\ file.questions = data[p].questions

\* C8: a reply whose parentAnswerId is the id of a reply of the question's
\* forest, at any depth, becomes the last child of a reply with that id and
\* the top level keeps its length; a reply whose parentAnswerId is the id of
\* no reply of the forest is appended to the top level, and the handler goes
\* on to store it.
C8_ReplyPlacedUnderParent ==
    \A p \in Procs :
        (Changed(p, "reply") /\ req[p].parent # NoParent) =>
            LET b == Before(p)
                a == After(p)
                n == resp[p].reply[1] IN
            IF req[p].parent \in ReplyIds(b.answers)
            THEN /\ Len(a.answers) = Len(b.answers)
                 /\ \E m \in Nodes(a.answers) :
                        /\ m.id = req[p].parent
                        /\ m.replies # <<>>
                        /\ m.replies[Len(m.replies)] = n
            ELSE a.answers = Append(b.answers, n)

\* A reply to a reply that is itself a child has been stored.
C8_Witness ==
    \E p \in Procs :
        /\ Succeeded(p, "reply")
        /\ req[p].parent \in ReplyIds(Before(p).answers)
        /\ req[p].parent \notin {Before(p).answers[i].id :
                                    i \in 1 .. Len(Before(p).answers)}
        /\ file.questions = data[p].questions

\* C9: an owner's reply that is placed at the top level sets the question's
\* status to answered; an owner's reply that is attached as a child leaves the
\* status as it was.
C9_OwnerReplySetsStatus ==
    \A p \in Procs :
        (Changed(p, "reply") /\ req[p].isOwner) =>
            LET b == Before(p)
                a == After(p)
                n == resp[p].reply[1] IN
            /\ (a.answers = Append(b.answers, n)) => a.status = "answered"
            /\ (Len(a.answers) = Len(b.answers)) => a.status = b.status

\* C10: in every reachable state, a stored question with an owner's reply at
\* the top level has status answered.
C10_TopLevelOwnerReplyMeansAnswered ==
    \A i \in 1 .. Len(file.questions) :
        (\E j \in 1 .. Len(file.questions[i].answers) :
            file.questions[i].answers[j].isOwner)
            => file.questions[i].status = "answered"

\* C11: a reply to a question id that the fetched collection does not hold is
\* answered not-found, and a reply whose text is empty after trimming is
\* answered with a validation error; in both cases the handler adds no reply
\* and the step that answers leaves the stored questions as they were.
C11_ReplyErrorsLeaveCollection ==
    /\ [](\A p \in Procs :
            /\ (req[p].op = "reply" /\ Len(Letters(req[p].text)) = 0)
                   => /\ pc[p] = "done"
                      /\ resp[p].status = 400
                      /\ data[p] = EmptyData
            /\ ( /\ req[p].op = "reply" /\ pc[p] = "done"
                 /\ Len(Letters(req[p].text)) > 0
                 /\ FindIndex(loaded[p].questions, req[p].qid) = 0 )
                   => /\ resp[p].status = 404
                      /\ data[p] = loaded[p])
    /\ [][\A p \in Procs :
            ( /\ req'[p].op = "reply"
              /\ pc[p] # "done" /\ pc'[p] = "done"
              /\ resp'[p].status \in {400, 404} )
                => file'.questions = file.questions]_vars

\* The operations that store: submitQuestion, postReply, toggleLike.
Mutations == {"submit", "reply", "like"}

\* C12: when the store step of a submission, a reply or a like fails, the
\* caller is answered with a failure, the failed step leaves the file as it
\* is, and no earlier step of the call has changed the stored questions; a
\* success is answered only by the store step, and only with the file holding
\* what the call stored.
C12_StoreFailureReported ==
    [][\A p \in Procs :
          /\ ( /\ pc[p] = "write" /\ pc'[p] = "done"
               /\ resp'[p].status # 200 )
                 => /\ req[p].op \in Mutations
                    /\ resp'[p].status = 500
                    /\ file' = file
                    /\ ~wrote[p]
          /\ ( /\ req'[p].op \in Mutations
               /\ resp[p].status # 200 /\ resp'[p].status = 200 )
                 => /\ pc[p] = "write"
                    /\ file' = Stored(version, data[p])]_vars

\* C13: a handler whose fetch meets a questions.json that is blank,
\* unparsable or an object without questions goes on as on the empty
\* collection: a listing answers the empty list, a submission goes on to
\* store exactly its one question, a reply and a like are answered not-found,
\* and none is answered 500.
C13_MalformedContentNormalised ==
    [][\A p \in Procs :
          ( /\ file.kind \in {"blank", "garbage", "noq"}
            /\ pc[p] \in {"idle", "read"}
            /\ pc'[p] \in {"write", "done"}
            /\ resp'[p].status # 400 )
              => /\ resp'[p].status # 500
                 /\ (req'[p].op = "list")
                        => resp'[p].status = 200 /\ resp'[p].list = <<>>
                 /\ (req'[p].op = "submit")
                        => pc'[p] = "write" /\ Len(data'[p].questions) = 1
                 /\ (req'[p].op \in {"reply", "like"})
                        => resp'[p].status = 404]_vars

\* C14: no step removes a question or a reply from the stored collection:
\* every question id and every reply id of questions.json is still there
\* after the step.
C14_NothingStoredIsRemoved ==
    [][ /\ QuestionIdsOf(file.questions) \subseteq QuestionIdsOf(file'.questions)
        /\ \A i \in 1 .. Len(file.questions) :
               \A j \in 1 .. Len(file'.questions) :
                   file'.questions[j].id = file.questions[i].id
                       => ReplyIds(file.questions[i].answers)
                              \subseteq ReplyIds(file'.questions[j].answers)
      ]_vars

\* C15: no step of a listing's handler changes questions.json, whether or not
\* the file exists and whatever the other slot is doing.
C15_ListIsPureRead ==
    [][\A p \in Procs :
          (req'[p].op = "list" /\ pc'[p] # pc[p]) => file' = file]_vars

\* Slot p's handler gets the result of its readQuestionsFile in this step.
Fetched(p) == pc[p] \notin {"write", "done"} /\ pc'[p] \in {"write", "done"}
                  /\ resp'[p].status # 400

\* C16: on a file system without I/O errors, a fetch that finds no
\* questions.json yields { questions: [] }; once an initialization has run,
\* questions.json exists, and it holds the empty collection right after an
\* initialization that found none; the file never disappears again, and a
\* later read of it yields what it holds.
C16_InitializeCreatesCollection ==
    /\ [](\A p \in Procs :
            (req[p].op = "init" /\ pc[p] = "done") => file.kind = "ok")
    /\ [][ /\ file.kind = "ok" => file'.kind = "ok"
           /\ \A p \in Procs :
                /\ (Fetched(p) /\ file.kind = "absent")
                       => loaded'[p] = EmptyData
                /\ (Fetched(p) /\ file.kind = "absent" /\ req[p].op = "init")
                       => file' = EmptyFile
                /\ (Fetched(p) /\ file.kind = "ok" /\ pc[p] # "create"
                              /\ req'[p].op # "init")
                       => loaded'[p] = [hasQ |-> TRUE, questions |-> file.questions]
         ]_vars

\* An initialization has created the file that the other slot's request,
\* still waiting, had found missing.
C16_Witness ==
    \E p, o \in Procs :
        /\ req[p].op = "init" /\ pc[p] = "done"
        /\ pc[o] = "create"
        /\ file = EmptyFile
        /\ left = MaxRequests - 2

\* C17: no step of an initialization changes a questions.json that exists:
\* an initialization, the first or a later one, never replaces stored
\* questions by the empty collection.
C17_InitializeKeepsCollection ==
    [][\A p \in Procs :
          (req'[p].op = "init" /\ pc'[p] # pc[p] /\ file.kind = "ok")
              => file' = file]_vars

\* C18: whatever happens to the fetch (fs.access, fs.readFile or JSON.parse
\* fails, the file is blank), readQuestionsFile returns a collection, which is
\* { questions: [] } or what the file holds, and { questions: [] } when the
\* content is blank or unparsable; the handler goes on and is not answered 500
\* by the step that fetched.
C18_LoadNeverFails ==
    [][\A p \in Procs :
          (Fetched(p) /\ file.kind # "noq")
              => /\ resp'[p].status # 500
                 /\ loaded'[p].hasQ
                 /\ loaded'[p].questions \in {<<>>, file.questions}
                 /\ (file.kind \in {"blank", "garbage"})
                        => loaded'[p] = EmptyData]_vars

\* A submission whose fetch met unparsable content is about to store.
C18_Witness ==
    \E p \in Procs :
        /\ file.kind = "garbage"
        /\ req[p].op = "submit"
        /\ pc[p] = "write"
        /\ loaded[p] = EmptyData

\* C19: a store that questions.json, the primary backend, rejects is followed
\* by an attempt on the next backend of the order (the fallback directory):
\* the step in which only the write of questions.json has failed does not yet
\* answer the request with a failure.
C19_StoreFallsBackToNextBackend ==
    [][\A p \in Procs :
          (pc[p] = "write" /\ pc'[p] # "write" /\ resp'[p].status # 200)
              => resp'[p].status # 500]_vars

\* The ids of the replies of a forest, one entry per reply.
RECURSIVE ReplyIdSeq(_)
ReplyIdSeq(replies) ==
    IF replies = <<>> THEN <<>>
    ELSE <<Head(replies).id>> \o ReplyIdSeq(Head(replies).replies)
                              \o ReplyIdSeq(Tail(replies))

\* The ids of a collection, one entry per question and per reply.
RECURSIVE IdSeq(_)
IdSeq(questions) ==
    IF questions = <<>> THEN <<>>
    ELSE <<Head(questions).id>> \o ReplyIdSeq(Head(questions).answers)
                                \o IdSeq(Tail(questions))

\* C20: in every reachable state in which no value of Date.now() has become
\* the id of two creations, the ids of the questions and replies stored in
\* questions.json are pairwise distinct.
C20_IdsPairwiseDistinct ==
    ~issued.twice =>
        LET ids == IdSeq(file.questions) IN
        \A i, j \in 1 .. Len(ids) : i # j => ids[i] # ids[j]

\* Two questions and a reply, created in three ticks, are stored.
C20_Witness ==
    /\ ~issued.twice
    /\ Len(file.questions) = 2
    /\ Len(IdSeq(file.questions)) = 3

\* What a request of kind op creates: one question or one reply, or nothing.
Creates(op) == IF op \in {"submit", "reply"} THEN 1 ELSE 0

\* C21: when two mutations that each loaded the collection before the other
\* stored have both answered success, questions.json holds the in-memory
\* copy of the one that stored last: what that one had loaded with its own
\* change and nothing more, so the other's change is not in it.
C21_LastStoreWins ==
    \A p, o \in Procs :
        ( /\ o \in missed[p]
          /\ pc[p] = "done" /\ resp[p].status = 200 /\ req[p].op \in Mutations
          /\ pc[o] = "done" /\ resp[o].status = 200 /\ req[o].op \in Mutations )
            => /\ file = Stored(version, data[p])
               /\ Len(IdSeq(file.questions))
                      = Len(IdSeq(loaded[p].questions)) + Creates(req[p].op)
               /\ (req[p].op = "submit")
                      => SubSeq(file.questions, 1, Len(file.questions) - 1)
                             = loaded[p].questions
               /\ (req[o].op = "like" /\ req[p].op = "submit")
                      => \A i \in 1 .. Len(loaded[p].questions) :
                             file.questions[i].likedBy
                                 = loaded[p].questions[i].likedBy

\* A like and a submission overlapped, the submission stored last, and the
\* like, answered with success, is not in the file.
C21_Witness ==
    \E p, o \in Procs :
        /\ o \in missed[p]
        /\ Succeeded(p, "submit") /\ Succeeded(o, "like")
        /\ resp[o].isLiked
        /\ After(o).likedBy # file.questions[1].likedBy

\* The positions of the replies of a forest in pre-order: a position is the
\* sequence of indices that leads from the top level to the reply.
RECURSIVE PathsFrom(_, _, _)
PathsFrom(replies, pre, i) ==
    IF i > Len(replies) THEN <<>>
    ELSE <<Append(pre, i)>>
             \o PathsFrom(replies[i].replies, Append(pre, i), 1)
             \o PathsFrom(replies, pre, i + 1)

Paths(replies) == PathsFrom(replies, <<>>, 1)

RECURSIVE NodeAt(_, _)
NodeAt(replies, path) ==
    IF Len(path) = 1 THEN replies[path[1]]
    ELSE NodeAt(replies[path[1]].replies, Tail(path))

\* The positions, in pre-order, of the replies whose id is id.
Matches(replies, id) ==
    SelectSeq(Paths(replies), LAMBDA path : NodeAt(replies, path).id = id)

\* C22: a reply whose parentAnswerId is the id of some reply of the forest is
\* appended to the replies of the first reply with that id in pre-order, also
\* when several replies have that id; every reply of the forest stays where
\* it was, with its fields, and no other reply's replies change in length.
C22_FirstPreOrderMatchOnly ==
    \A p \in Procs :
        ( /\ Changed(p, "reply")
          /\ req[p].parent # NoParent
          /\ req[p].parent \in ReplyIds(Before(p).answers) ) =>
            LET b == Before(p).answers
                a == After(p).answers
                n == resp[p].reply[1]
                ps == Paths(b)
                m == Matches(b, req[p].parent)[1]
                parent == NodeAt(a, m)
            IN  /\ Len(a) = Len(b)
                /\ Len(Paths(a)) = Len(ps) + 1
                /\ \A k \in 1 .. Len(ps) :
                       LET x == NodeAt(b, ps[k])
                           y == NodeAt(a, ps[k])
                       IN  /\ [y EXCEPT !.replies = <<>>] = [x EXCEPT !.replies = <<>>]
                           /\ Len(y.replies) = Len(x.replies)
                                                  + (IF ps[k] = m THEN 1 ELSE 0)
                /\ parent.replies[Len(parent.replies)] = n

\* A reply has been attached under an id that two replies of the forest
\* share, the first of them in pre-order lying deeper than the second.
C22_Witness ==
    \E p \in Procs :
        /\ Succeeded(p, "reply")
        /\ req[p].parent # NoParent
        /\ LET ms == Matches(Before(p).answers, req[p].parent) IN
               Len(ms) = 2 /\ Len(ms[1]) > Len(ms[2])
        /\ file.questions = data[p].questions

\* C23: when the fetch of a submission has failed, so that the handler got
\* { questions: [] } whatever the file held, and its store is accepted, the
\* file holds exactly the one new question, which carries the returned
\* questionId, and the caller is answered success.
C23_FailedFetchThenStoreLeavesOneQuestion ==
    [][\A p \in Procs :
          ( /\ req[p].op = "submit"
            /\ pc[p] = "write" /\ pc'[p] = "done"
            /\ loaded[p] = EmptyData
            /\ file' # file )
              => /\ resp'[p].status = 200
                 /\ Len(file'.questions) = 1
                 /\ file'.questions[1] = Submitted(p)
                 /\ file'.questions[1].id = resp'[p].questionId
                 /\ file'.questions[1].question = Letters(req[p].text)]_vars

\* The only request served so far, a submission, found a stored question when
\* it arrived; its fetch failed, its store was accepted, and the stored
\* question is gone.
C23_Witness ==
    \E p \in Procs :
        /\ Succeeded(p, "submit")
        /\ now >= 3 /\ left = MaxSeedRequests - 1
        /\ loaded[p] = EmptyData
        /\ Len(file.questions) = 1
        /\ file.questions[1].id # 1

\* C24: no step takes a stored question from answered back to pending: a
\* question that is answered in questions.json and is still stored after the
\* step, at its place and with its id, is still answered.  (Questions are
\* told apart by their ids, so steps after two creations in one tick are left
\* out.)
C24_StatusNeverBackToPending ==
    [][~issued.twice =>
          \A i \in 1 .. Len(file.questions) :
              ( /\ i <= Len(file'.questions)
                /\ file'.questions[i].id = file.questions[i].id
                /\ file.questions[i].status = "answered" )
                  => file'.questions[i].status = "answered"]_vars

\* C25: in every reachable state, a stored question whose status is answered
\* has an owner's reply among its top-level answers.
C25_AnsweredMeansTopLevelOwnerReply ==
    \A i \in 1 .. Len(file.questions) :
        file.questions[i].status = "answered"
            => \E j \in 1 .. Len(file.questions[i].answers) :
                   file.questions[i].answers[j].isOwner

\* A question submitted to the empty collection is stored as answered, with
\* one top-level answer and a reply below it.
C25_Witness ==
    /\ now < 3
    /\ Len(file.questions) = 1
    /\ file.questions[1].status = "answered"
    /\ Len(file.questions[1].answers) = 1
    /\ file.questions[1].answers[1].replies # <<>>

\* C26: the accepted store of a like that found in questions.json the
\* collection it had loaded changes, of the first question with the
\* request's id, likedBy and likes and nothing else, and changes no other
\* question.
C26_LikeChangesOnlyLikes ==
    [][\A p \in Procs :
          ( /\ req[p].op = "like"
            /\ pc[p] = "write" /\ pc'[p] = "done"
            /\ resp'[p].status = 200
            /\ file.kind = "ok"
            /\ file.questions = loaded[p].questions ) =>
              LET old == file.questions
                  new == file'.questions
                  first == CHOOSE i \in 1 .. Len(old) :
                               /\ old[i].id = req[p].qid
                               /\ \A j \in 1 .. (i - 1) : old[j].id # req[p].qid
              IN  /\ file'.kind = "ok"
                  /\ Len(new) = Len(old)
                  /\ \A i \in 1 .. Len(old) : i # first => new[i] = old[i]
                  /\ [new[first] EXCEPT !.likes = 0, !.likedBy = <<>>]
                         = [old[first] EXCEPT !.likes = 0, !.likedBy = <<>>]
                  /\ new[first].likedBy # old[first].likedBy]_vars

\* Two questions, created in one tick, share their id; a like has been
\* stored and only the first of them has it.
C26_Witness ==
    \E p \in Procs :
        /\ Succeeded(p, "like")
        /\ file.questions = data[p].questions
        /\ Len(file.questions) = 2
        /\ file.questions[1].id = file.questions[2].id
        /\ file.questions[1].likes = 1
        /\ file.questions[2].likes = 0

\* C27: in every reachable state, no stored question's likedBy holds a user
\* id at two positions.
C27_NoUserTwiceInLikedBy ==
    \A i \in 1 .. Len(file.questions) :
        LET l == file.questions[i].likedBy IN
        \A j, k \in 1 .. Len(l) : j # k => l[j] # l[k]

\* Starting without questions, a question has been submitted and liked by
\* two users.
C27_Witness ==
    /\ now < 3
    /\ Len(file.questions) = 1
    /\ Len(file.questions[1].likedBy) = 2

====
